---- MODULE Spec2Model ----
(***************************************************************************)
(* The device memory arena of a rocBLAS handle (struct _rocblas_handle):   *)
(* the size-query state, the _device_malloc allocation objects that borrow *)
(* the handle's block, and the _pushed_state guards that override          *)
(* pointer_mode and any_order.                                             *)
(*                                                                         *)
(* size_t is modelled with SizeBits bits (arithmetic is taken modulo       *)
(* SIZE_MOD, as unsigned arithmetic is in C++).  A pointer is an address:  *)
(* NULL is 0 and a block's base is one of Bases.                           *)
(***************************************************************************)
EXTENDS Integers, Sequences, FiniteSets, TLC

\* ------------------------------------------------------------- constants

\* static constexpr size_t MIN_CHUNK_SIZE = 64;
MIN_CHUNK_SIZE == 64

\* Width of size_t in the model (64 in the build).
SizeBits == 9

\* Most allocation objects / guards alive at once on the handle.
MaxLive == 2

\* Most requirement recordings remembered per size-query session.
MaxRecord == 2

SIZE_MOD == 2 ^ SizeBits

SIZE_MAX == SIZE_MOD - 1

NULL == 0

\* Addresses a block can start at (hipMalloc results, caller's buffers).
Bases == {1024, 2048}

\* A size so large that rounding it up does not fit in size_t.
BigSize == SIZE_MAX - 10

\* The size lists the routines pass to device_malloc and to
\* set_optimal_device_memory_size (sizeof...(Ss) >= 1).
Requests ==
    { <<0>>, <<0, 0>>, <<50>>, <<100>>, <<200>>, <<0, 50>>, <<50, 0, 100>>,
      <<BigSize>>, <<BigSize, 50>> }

\* Sizes of the blocks a caller attaches to the handle.
BlockSizes == {64, 100, 128, 192, 256}

\* Sizes given to rocblas_set_device_memory_size.
ManagedSizes == {0, 100}

\* What an uninitialized size_t may hold.
Indeterminate == {0, SIZE_MAX}

PointerModes == {"host", "device"}

\* ------------------------------------------------------- size_t arithmetic

\* Unsigned arithmetic of size_t: the result modulo 2^SizeBits.
Wrap(x) == x % SIZE_MOD

RECURSIVE BitOr(_, _)
\* a | b on non-negative integers.
BitOr(a, b) ==
    IF a = 0 THEN b
    ELSE IF b = 0 THEN a
    ELSE (IF a % 2 = 1 \/ b % 2 = 1 THEN 1 ELSE 0)
         + 2 * BitOr(a \div 2, b \div 2)

\* A plausible slip: the "- 1" forgotten, so exact multiples gain a chunk.
roundup_no_decrement(size) ==
    Wrap(BitOr(size, MIN_CHUNK_SIZE - 1) + 1)

\* return ((size - 1) | (MIN_CHUNK_SIZE - 1)) + 1;
roundup_device_memory_size(size) ==
    Wrap(BitOr(Wrap(size - 1), MIN_CHUNK_SIZE - 1) + 1)

RECURSIVE FoldRoundup(_)
\* (roundup_device_memory_size(size_t(sizes)) + ...): the fold over the pack.
FoldRoundup(sizes) ==
    IF Len(sizes) = 1
    THEN roundup_device_memory_size(sizes[1])
    ELSE Wrap(roundup_device_memory_size(Head(sizes)) + FoldRoundup(Tail(sizes)))

RECURSIVE PartialTotalUnrounded(_, _)
\* A plausible slip: total += sizes, the rounding forgotten on this path.
PartialTotalUnrounded(sizes, k) ==
    IF k = 0 THEN 0 ELSE Wrap(PartialTotalUnrounded(sizes, k - 1) + sizes[k])

RECURSIVE PartialTotal(_, _)
\* The member total after the first k elements of
\*   offsets[] = {(old = total, total += roundup_device_memory_size(sizes), old)...}
\* starting from total = 0.
PartialTotal(sizes, k) ==
    IF k = 0 THEN 0
    ELSE Wrap(PartialTotal(sizes, k - 1) + roundup_device_memory_size(sizes[k]))

\* ----------------------------------------------------------------- state

VARIABLES
    device_memory_size,                \* size_t, bytes of the block
    device_memory_query_size,          \* size_t, maximum recorded in a query
    device_memory,                     \* void*, base of the block
    device_memory_is_rocblas_managed,  \* bool
    device_memory_in_use,              \* bool, the in-use guard
    device_memory_size_query,          \* bool, a size query is open
    pointer_mode,                      \* rocblas_pointer_mode
    any_order,                         \* bool
    layer_mode,                        \* rocblas_layer_mode, a set of log bits
    check_numerics,                    \* the numerics-checking flag
    gsu_workspace_size,                \* size_t
    gsu_workspace,                     \* void*
    live,       \* the live _device_malloc / _pushed_state objects, innermost last
    aborted,    \* the process was aborted on a contract violation
    recorded,   \* history: the recordings of the current (or last) query session
    reported,   \* history: *size written by the last stop of a query, -1 if none
    last,       \* history: the last operation, its arguments and what it returned
    call,       \* history: the last routine call, what it did and returned
    other,      \* the handle of the other thread, as that thread left it
    focus,      \* the thread that runs: the variables above are its handle
    position    \* where the thread is in rocblas_gbmv_batched_impl, its locals

handle ==
    << device_memory_size, device_memory_query_size, device_memory,
       device_memory_is_rocblas_managed, device_memory_in_use,
       device_memory_size_query, pointer_mode, any_order, layer_mode,
       check_numerics, gsu_workspace_size, gsu_workspace >>

\* Two threads, each with a handle of its own.
threads == << other, focus >>

vars == << handle, live, aborted, recorded, reported, last, call, threads, position >>

memory_fields ==
    << device_memory_size, device_memory, device_memory_is_rocblas_managed,
       device_memory_in_use >>

query_fields == << device_memory_query_size, device_memory_size_query >>

override_fields == << pointer_mode, any_order >>

logging_fields == << layer_mode, check_numerics >>

gsu_fields == << gsu_workspace_size, gsu_workspace >>

\* What a routine call did and the status it returned: the log functions it
\* called, and how many times it ran the numerics validation, allocated from
\* the arena and dispatched to the backend. seq is the parity of the number
\* of routine calls made on the handle so far, backend what the backend
\* template gave back ("none" if it was not called).
Call(routine, args, status, logged, validated, allocated, dispatched) ==
    [routine |-> routine, args |-> args, status |-> status, logged |-> logged,
     validated |-> validated, allocated |-> allocated, dispatched |-> dispatched,
     seq |-> 0, backend |-> "none"]

\* A call that dispatched to the backend.
Dispatched(c, backend) == [c EXCEPT !.backend = backend]

NoCall == Call("none", << >>, "none", {}, 0, 0, 0)

\* An operation, the status (or outcome) it returned, and two numbers about it
\* (the argument and the value of the rounding function, the total of a
\* device_malloc, whether a guard's destructor changed the field).
Returned(op, status) == [op |-> op, status |-> status, arg |-> 0, val |-> 0]

\* No second handle has been created.
NoHandle == << >>

\* A thread in rocblas_gbmv_batched_impl: the statement it has reached, the
\* arguments of the call, the local copy of the numerics-checking flag, the
\* collaborators called so far in the order of the calls, what the validation
\* of the inputs and the backend template returned ("none" if not called),
\* and the status returned.
Position(pc, args, flag) ==
    [pc |-> pc, args |-> args, check_numerics |-> flag, steps |-> << >>,
     numerics_in |-> "none", backend |-> "none", status |-> "none"]

\* No call of the routine has been made.
Idle == Position("idle", << >>, FALSE)

\* The member initializers of _rocblas_handle; device_memory_query_size has none.
Init ==
    /\ device_memory_size = 0
    /\ device_memory_query_size \in Indeterminate
    /\ device_memory = NULL
    /\ device_memory_is_rocblas_managed = FALSE
    /\ device_memory_in_use = FALSE
    /\ device_memory_size_query = FALSE
    /\ pointer_mode = "host"
    /\ any_order = FALSE
    /\ layer_mode = {}
    /\ check_numerics = FALSE
    /\ gsu_workspace_size = 0
    /\ gsu_workspace = NULL
    /\ live = << >>
    /\ aborted = FALSE
    /\ recorded = {}
    /\ reported = -1
    /\ last = Returned("create", "success")
    /\ call = NoCall
    /\ other = NoHandle
    /\ focus = 1
    /\ position = Idle

\* ------------------------------------------------- the handle's allocator

Top == live[Len(live)]

Pop == SubSeq(live, 1, Len(live) - 1)

\* What a call leaves in memory_fields, and the pointer it returns.
Outcome(ptr, mem, size, in_use, abort) ==
    [ptr |-> ptr, mem |-> mem, size |-> size, in_use |-> in_use, abort |-> abort]

\* void* device_allocator(size_t size): a set of possible outcomes.
\*   - the block is already in use: a contract violation, the process is aborted;
\*   - the block is large enough: it is marked in use and its base returned;
\*   - a library-managed block is too small: it is replaced by a block of the
\*     requested size, or, when the device has no memory left, the call fails
\*     and the block is left as it was;
\*   - a caller-managed block is too small: the call fails.
device_allocator(size) ==
    IF device_memory_in_use
    THEN {Outcome(NULL, device_memory, device_memory_size, TRUE, TRUE)}
    ELSE IF size <= device_memory_size
    THEN {Outcome(device_memory, device_memory, device_memory_size, TRUE, FALSE)}
    ELSE IF device_memory_is_rocblas_managed
    THEN {Outcome(b, b, size, TRUE, FALSE) : b \in Bases}
         \cup {Outcome(NULL, device_memory, device_memory_size, FALSE, FALSE)}
    ELSE {Outcome(NULL, device_memory, device_memory_size, FALSE, FALSE)}

\* ------------------------------------------------------- _device_malloc<N>

NoPointers(sizes) == [i \in 1..Len(sizes) |-> NULL]

Allocation(sizes, success, total, pointers) ==
    [kind |-> "malloc", sizes |-> sizes, success |-> success, total |-> total,
     pointers |-> pointers]

\* A plausible slip: success = false forgotten on the failure path.
FailedAllocationStillTrue(sizes, total) ==
    Allocation(sizes, TRUE, total, NoPointers(sizes))

\* if(!ptr) { success = false; return {}; }
FailedAllocation(sizes, total) ==
    Allocation(sizes, FALSE, total, NoPointers(sizes))

\* A plausible slip: the shortcut for an empty request is missing.
NeverEmpty(total) == FALSE

\* if(!total) return {};
TotalIsZero(total) == total = 0

\* A plausible slip: every slot gets a pointer, also a zero-sized one.
PointerOfSlotAlways(sizes, ptr, i) == ptr + PartialTotal(sizes, i - 1)

\* A plausible slip: the offset of the slot is not added to the base.
PointerOfSlotNoOffset(sizes, ptr, i) == IF sizes[i] = 0 THEN NULL ELSE ptr

\* {!sizes ? i++, nullptr : (char*)ptr + offsets[i++]...}, slot i; offsets[i]
\* is the running total before size i.
PointerOfSlot(sizes, ptr, i) ==
    IF sizes[i] = 0 THEN NULL ELSE ptr + PartialTotal(sizes, i - 1)

\* decltype(pointers) allocate_pointers(Ss... sizes), with the constructor's
\* member initializers success = true, total = 0: the set of possible
\* results, each the constructed object and what the allocator did.
allocate_pointers(sizes) ==
    LET total == PartialTotal(sizes, Len(sizes))
        untouched == Outcome(NULL, device_memory, device_memory_size,
                             device_memory_in_use, FALSE)
    IN  IF TotalIsZero(total)
        THEN {[obj |-> Allocation(sizes, TRUE, total, NoPointers(sizes)),
               mem |-> untouched]}
        ELSE {[obj |-> IF o.ptr = NULL
                       THEN FailedAllocation(sizes, total)
                       ELSE Allocation(sizes, TRUE, total,
                                [i \in 1..Len(sizes) |-> PointerOfSlot(sizes, o.ptr, i)]),
               mem |-> o] : o \in device_allocator(total)}

\* auto device_malloc(Ss... sizes): constructs _device_malloc<sizeof...(Ss)>.
device_malloc(sizes) ==
    /\ ~aborted
    /\ Len(live) < MaxLive
    /\ \E r \in allocate_pointers(sizes) :
          /\ device_memory' = r.mem.mem
          /\ device_memory_size' = r.mem.size
          /\ device_memory_in_use' = r.mem.in_use
          /\ aborted' = r.mem.abort
          /\ live' = IF r.mem.abort THEN live ELSE Append(live, r.obj)
          /\ last' = [Returned("device_malloc",
                                 IF r.mem.abort THEN "abort"
                                 ELSE IF r.obj.success THEN "success" ELSE "failed")
                        EXCEPT !.val = r.obj.total]
    /\ UNCHANGED << device_memory_is_rocblas_managed, query_fields,
                    override_fields, recorded, reported >>
    /\ UNCHANGED << logging_fields, gsu_fields, call, threads, position >>

\* A plausible slip: the flag is written true, not false.
device_malloc_destructor_sets ==
    /\ device_memory_in_use' = TRUE
    /\ UNCHANGED << device_memory_size, device_memory,
                    device_memory_is_rocblas_managed, query_fields,
                    override_fields >>

\* ~_device_malloc(): handle->device_memory_in_use = false;
device_malloc_destructor ==
    /\ device_memory_in_use' = FALSE
    /\ UNCHANGED << device_memory_size, device_memory,
                    device_memory_is_rocblas_managed, query_fields,
                    override_fields >>

\* auto x = handle->device_malloc(sizes...), for every size list of Requests.
DeviceMalloc == \E sizes \in Requests : device_malloc(sizes)

\* How the code between a construction and the end of its scope leaves the scope.
Exits == {"normal", "error_return", "exception"}

\* The scope of the innermost allocation object ends: its destructor runs. The
\* history keeps whether the object destroyed was a successful allocation, its
\* sizes and its pointers.
AllocationScopeExit ==
    /\ ~aborted
    /\ live # << >>
    /\ Top.kind = "malloc"
    /\ device_malloc_destructor
    /\ live' = Pop
    /\ last' = [Returned("~_device_malloc", IF Top.success THEN "success" ELSE "failed")
                  EXCEPT !.arg = Top.sizes, !.val = Top.pointers]
    /\ UNCHANGED << aborted, recorded, reported >>
    /\ UNCHANGED << logging_fields, gsu_fields, call, threads, position >>

\* _device_malloc(_device_malloc&&) = default: an allocation object is
\* move-constructed from the innermost one (auto b = std::move(a)). The new
\* object gets the handle, success, total and the pointers of its source and
\* calls nothing; the source is an object like before, its destructor will
\* run when its own scope ends.
MoveAllocation ==
    /\ ~aborted
    /\ live # << >>
    /\ Top.kind = "malloc"
    /\ Len(live) < MaxLive
    /\ live' = Append(live, Top)
    /\ last' = [Returned("move_device_malloc", IF Top.success THEN "success" ELSE "failed")
                  EXCEPT !.arg = Top.sizes, !.val = Top.pointers]
    /\ UNCHANGED << handle, aborted, recorded, reported, call, threads, position >>

\* -------------------------------------------------------------- _gsu_malloc

\* _gsu_malloc gsu_malloc() { return this; }, that is
\* _gsu_malloc(rocblas_handle handle)
\*     : _device_malloc<>(handle, handle->device_memory_size)
\* {
\*     handle->gsu_workspace_size = *this ? total_size() : 0;
\*     handle->gsu_workspace      = *this;
\* }
gsu_malloc ==
    /\ ~aborted
    /\ Len(live) < MaxLive
    /\ \E r \in allocate_pointers(<< device_memory_size >>) :
          /\ device_memory' = r.mem.mem
          /\ device_memory_size' = r.mem.size
          /\ device_memory_in_use' = r.mem.in_use
          /\ aborted' = r.mem.abort
          /\ live' = IF r.mem.abort THEN live
                     ELSE Append(live, [r.obj EXCEPT !.kind = "gsu"])
          /\ gsu_workspace_size' = IF r.mem.abort THEN gsu_workspace_size
                                    ELSE IF r.obj.success THEN r.obj.total ELSE 0
          /\ gsu_workspace' = IF r.mem.abort THEN gsu_workspace
                               ELSE r.obj.pointers[1]
          /\ last' = [Returned("gsu_malloc",
                                 IF r.mem.abort THEN "abort"
                                 ELSE IF r.obj.success THEN "success" ELSE "failed")
                        EXCEPT !.arg = device_memory_size, !.val = r.obj.total]
    /\ UNCHANGED << device_memory_is_rocblas_managed, query_fields,
                    override_fields, logging_fields, recorded, reported, call, threads, position >>

\* A plausible slip: the destructor of the scratch object leaves the fields.
gsu_malloc_destructor_keeps ==
    UNCHANGED gsu_fields

\* ~_gsu_malloc() { handle->gsu_workspace_size = 0; handle->gsu_workspace = nullptr; }
gsu_malloc_destructor ==
    /\ gsu_workspace_size' = 0
    /\ gsu_workspace' = NULL

\* The scope of the innermost GSU scratch object ends: ~_gsu_malloc runs, then
\* the destructor of its base class _device_malloc<>.
GsuScopeExit ==
    /\ ~aborted
    /\ live # << >>
    /\ Top.kind = "gsu"
    /\ gsu_malloc_destructor
    /\ device_malloc_destructor
    /\ live' = Pop
    /\ last' = [Returned("~_gsu_malloc", IF Top.success THEN "success" ELSE "failed")
                  EXCEPT !.val = Top.total]
    /\ UNCHANGED << logging_fields, aborted, recorded, reported, call, threads, position >>

\* ------------------------------------------------ the caller's memory block

\* attach_caller_block(handle, pointer, size): the caller retains ownership. A
\* block the library owned is freed. The caller configures the handle between
\* routine calls: no allocation object of a routine is live, and the handle is
\* not holding an allocation.
attach_caller_block(ptr, size) ==
    /\ ~aborted
    /\ live = << >>
    /\ ~device_memory_in_use
    /\ device_memory' = ptr
    /\ device_memory_size' = size
    /\ device_memory_is_rocblas_managed' = FALSE
    /\ last' = Returned("attach_caller_block", "success")
    /\ UNCHANGED << device_memory_in_use, query_fields, override_fields, live,
                    aborted, recorded, reported >>
    /\ UNCHANGED << logging_fields, gsu_fields, call, threads, position >>

AttachCallerBlock == \E ptr \in Bases, size \in BlockSizes : attach_caller_block(ptr, size)

\* set_block_size(handle, size): the library takes ownership and allocates a
\* block of the size rounded up to the chunk (no block for size 0).
set_block_size(size) ==
    /\ ~aborted
    /\ live = << >>
    /\ ~device_memory_in_use
    /\ \E b \in Bases :
          device_memory' = IF roundup_device_memory_size(size) = 0 THEN NULL ELSE b
    /\ device_memory_size' = roundup_device_memory_size(size)
    /\ device_memory_is_rocblas_managed' = TRUE
    /\ last' = Returned("set_block_size", "success")
    /\ UNCHANGED << device_memory_in_use, query_fields, override_fields, live,
                    aborted, recorded, reported >>
    /\ UNCHANGED << logging_fields, gsu_fields, call, threads, position >>

SetBlockSize == \E size \in ManagedSizes : set_block_size(size)

\* The caller attaches a block of the size the last size query recommended.
AttachQueriedBlock ==
    /\ reported >= 0
    /\ ~device_memory_size_query
    /\ \E ptr \in Bases : attach_caller_block(ptr, reported)

\* ------------------------------------------------------------ size queries

\* A plausible slip: the accumulated requirement is not zeroed.
begin_size_query_keeps ==
    /\ ~aborted
    /\ ~device_memory_size_query
    /\ device_memory_size_query' = TRUE
    /\ recorded' = {}
    /\ last' = Returned("begin_size_query", "success")
    /\ UNCHANGED << device_memory_query_size, memory_fields, override_fields,
                    live, aborted, reported >>
    /\ UNCHANGED << logging_fields, gsu_fields, call, threads, position >>

\* begin_size_query(handle): idle -> querying, the accumulated requirement zeroed.
begin_size_query ==
    /\ ~aborted
    /\ ~device_memory_size_query
    /\ device_memory_size_query' = TRUE
    /\ device_memory_query_size' = 0
    /\ recorded' = {}
    /\ last' = Returned("begin_size_query", "success")
    /\ UNCHANGED << memory_fields, override_fields, live, aborted, reported >>
    /\ UNCHANGED << logging_fields, gsu_fields, call, threads, position >>

\* end_size_query(handle) -> recommended_size: querying -> idle.
end_size_query ==
    /\ ~aborted
    /\ device_memory_size_query
    /\ device_memory_size_query' = FALSE
    /\ reported' = device_memory_query_size
    /\ last' = Returned("end_size_query", "success")
    /\ UNCHANGED << device_memory_query_size, memory_fields, override_fields,
                    live, aborted, recorded >>
    /\ UNCHANGED << logging_fields, gsu_fields, call, threads, position >>

Recording(sizes, total) == [sizes |-> sizes, total |-> total]

\* A plausible slip: the last recorded total is stored, not the maximum.
set_optimal_store(total) == total

\* if(total > device_memory_query_size) device_memory_query_size = total;
set_optimal_store_max(total) ==
    IF total > device_memory_query_size THEN total ELSE device_memory_query_size

\* A plausible slip: the test of the size-query mode is missing.
set_optimal_unguarded(sizes) ==
    /\ ~aborted
    /\ LET total == FoldRoundup(sizes)
       IN  /\ Cardinality(recorded \cup {Recording(sizes, total)}) <= MaxRecord
           /\ device_memory_query_size' = set_optimal_store_max(total)
           /\ recorded' = recorded \cup {Recording(sizes, total)}
           /\ last' = [Returned("set_optimal_device_memory_size",
                                  IF total > device_memory_query_size
                                  THEN "size_increased" ELSE "size_unchanged")
                         EXCEPT !.arg = sizes]
           /\ UNCHANGED device_memory_size_query
    /\ UNCHANGED << memory_fields, override_fields, live, aborted, reported >>
    /\ UNCHANGED << logging_fields, gsu_fields, call, threads, position >>

\* A plausible slip: the recording takes the block as an allocation does.
set_optimal_takes_block(sizes) ==
    /\ ~aborted
    /\ IF ~device_memory_size_query
       THEN /\ last' = [Returned("set_optimal_device_memory_size",
                                   "internal_error") EXCEPT !.arg = sizes]
            /\ UNCHANGED << query_fields, recorded, device_memory_in_use >>
       ELSE LET total == FoldRoundup(sizes)
            IN  /\ Cardinality(recorded \cup {Recording(sizes, total)}) <= MaxRecord
                /\ device_memory_query_size' = set_optimal_store_max(total)
                /\ recorded' = recorded \cup {Recording(sizes, total)}
                /\ last' = [Returned("set_optimal_device_memory_size",
                                       IF total > device_memory_query_size
                                       THEN "size_increased" ELSE "size_unchanged")
                              EXCEPT !.arg = sizes]
                /\ device_memory_in_use' = TRUE
                /\ UNCHANGED device_memory_size_query
    /\ UNCHANGED << device_memory_size, device_memory,
                    device_memory_is_rocblas_managed, override_fields, live,
                    aborted, reported >>
    /\ UNCHANGED << logging_fields, gsu_fields, call, threads, position >>

\* rocblas_status set_optimal_device_memory_size(Ss... sizes); the history
\* keeps the sizes as the argument of the operation.
set_optimal_device_memory_size(sizes) ==
    /\ ~aborted
    /\ IF ~device_memory_size_query
       THEN /\ last' = [Returned("set_optimal_device_memory_size",
                                   "internal_error") EXCEPT !.arg = sizes]
            /\ UNCHANGED << query_fields, recorded >>
       ELSE LET total == FoldRoundup(sizes)
            IN  /\ Cardinality(recorded \cup {Recording(sizes, total)}) <= MaxRecord
                /\ device_memory_query_size' = set_optimal_store_max(total)
                /\ recorded' = recorded \cup {Recording(sizes, total)}
                /\ last' = [Returned("set_optimal_device_memory_size",
                                       IF total > device_memory_query_size
                                       THEN "size_increased" ELSE "size_unchanged")
                              EXCEPT !.arg = sizes]
                /\ UNCHANGED device_memory_size_query
    /\ UNCHANGED << memory_fields, override_fields, live, aborted, reported >>
    /\ UNCHANGED << logging_fields, gsu_fields, call, threads, position >>

\* handle->set_optimal_device_memory_size(sizes...), for every size list of
\* Requests: by a routine in a size query, or by mistake outside of one.
SetOptimalDeviceMemorySize ==
    \E sizes \in Requests : set_optimal_device_memory_size(sizes)

\* ------------------------------------------------------ _pushed_state<STATE>

\* A guard: the field it refers to and its member old_state; before is history,
\* the value the field had when the push was called; restored is history too:
\* a destructor has already run for the override this guard belongs to.
Pushed(field, old_state, before) ==
    [kind |-> "pushed", field |-> field, old_state |-> old_state,
     before |-> before, restored |-> FALSE]

\* A plausible slip: old_state is initialized after the assignment, from the
\* new value.
pushed_state_keeps_new(state, new_state) ==
    [state |-> new_state, old_state |-> new_state]

\* _pushed_state(STATE& state, STATE new_state)
\*     : state(state), old_state(state) { state = new_state; }
pushed_state_constructor(state, new_state) ==
    [state |-> new_state, old_state |-> state]

\* _pushed_state<rocblas_pointer_mode>(pointer_mode, mode):
\*   state(state), old_state(state) { state = new_state; }
push_pointer_mode(mode) ==
    /\ ~aborted
    /\ Len(live) < MaxLive
    /\ live' = Append(live, Pushed("pointer_mode",
                   pushed_state_constructor(pointer_mode, mode).old_state, pointer_mode))
    /\ pointer_mode' = pushed_state_constructor(pointer_mode, mode).state
    /\ last' = Returned("push_pointer_mode", mode)
    /\ UNCHANGED << any_order, memory_fields, query_fields, aborted, recorded,
                    reported >>
    /\ UNCHANGED << logging_fields, gsu_fields, call, threads, position >>

PushPointerMode == \E mode \in PointerModes : push_pointer_mode(mode)

\* _pushed_state<bool>(any_order, new_any_order)
push_any_order(new_any_order) ==
    /\ ~aborted
    /\ Len(live) < MaxLive
    /\ live' = Append(live, Pushed("any_order",
                   pushed_state_constructor(any_order, new_any_order).old_state, any_order))
    /\ any_order' = pushed_state_constructor(any_order, new_any_order).state
    /\ last' = Returned("push_any_order", IF new_any_order THEN "true" ELSE "false")
    /\ UNCHANGED << pointer_mode, memory_fields, query_fields, aborted, recorded,
                    reported >>
    /\ UNCHANGED << logging_fields, gsu_fields, call, threads, position >>

PushAnyOrder == \E new_any_order \in BOOLEAN : push_any_order(new_any_order)

\* A plausible slip: the destructor leaves the field as the scope left it.
restore_nothing(state, old_state) == state

\* ~_pushed_state() { state = old_state; }: the value the field gets.
pushed_state_destructor(state, old_state) == old_state

\* The scope of the innermost guard ends (normally, by an error return or by an
\* exception unwinding it): its destructor runs. The history keeps how the scope
\* was left, whether the destructor changed the field, and which field it is.
GuardScopeExit ==
    /\ ~aborted
    /\ live # << >>
    /\ Top.kind = "pushed"
    /\ pointer_mode' = IF Top.field = "pointer_mode"
                       THEN pushed_state_destructor(pointer_mode, Top.old_state)
                       ELSE pointer_mode
    /\ any_order' = IF Top.field = "any_order"
                    THEN pushed_state_destructor(any_order, Top.old_state)
                    ELSE any_order
    /\ live' = Pop
    /\ \E how \in Exits :
          last' = [Returned("~_pushed_state", how)
                   EXCEPT !.arg = IF << pointer_mode', any_order' >> = override_fields
                                  THEN 0 ELSE 1,
                          !.val = Top.field]
    /\ UNCHANGED << memory_fields, query_fields, aborted, recorded, reported >>
    /\ UNCHANGED << logging_fields, gsu_fields, call, threads, position >>

\* _pushed_state(_pushed_state&&) = default: a guard is move-constructed from
\* the innermost guard (auto g2 = std::move(g), or a return that is not
\* elided). The new object gets the reference and old_state of its source and
\* writes nothing; the source is an object like before, its destructor will run.
MoveGuard ==
    /\ ~aborted
    /\ live # << >>
    /\ Top.kind \in {"pushed", "moved"}
    /\ Len(live) < MaxLive
    /\ live' = Append(live, [Top EXCEPT !.kind = "moved"])
    /\ last' = Returned("move_pushed_state", "success")
    /\ UNCHANGED << handle, aborted, recorded, reported, call, threads, position >>

\* What the destructor of guard g leaves in override_fields.
guard_destructor(g) ==
    [pointer_mode |-> IF g.field = "pointer_mode"
                      THEN pushed_state_destructor(pointer_mode, g.old_state)
                      ELSE pointer_mode,
     any_order |-> IF g.field = "any_order"
                   THEN pushed_state_destructor(any_order, g.old_state)
                   ELSE any_order]

\* The scope of a move-constructed guard ends while the guard it was moved
\* from, right below it, is still an object: ~_pushed_state runs for the new
\* guard, and will run again for its source.
MovedGuardScopeExit ==
    /\ ~aborted
    /\ live # << >>
    /\ Top.kind = "moved"
    /\ pointer_mode' = guard_destructor(Top).pointer_mode
    /\ any_order' = guard_destructor(Top).any_order
    /\ live' = [Pop EXCEPT ![Len(live) - 1].restored = TRUE]
    /\ last' = [Returned("~_pushed_state", "moved_to")
                  EXCEPT !.arg = IF << pointer_mode', any_order' >> = override_fields
                                 THEN 0 ELSE 1]
    /\ UNCHANGED << memory_fields, query_fields, aborted, recorded, reported >>
    /\ UNCHANGED << logging_fields, gsu_fields, call, threads, position >>

\* The guard that the innermost guard was moved from is destroyed first (a
\* temporary, or the local of the function that returned it): ~_pushed_state
\* runs for it while the guard that took its place stays in scope.
MovedFromScopeExit ==
    /\ ~aborted
    /\ live # << >>
    /\ Top.kind = "moved"
    /\ LET source == live[Len(live) - 1]
       IN  /\ pointer_mode' = guard_destructor(source).pointer_mode
           /\ any_order' = guard_destructor(source).any_order
           /\ live' = Append(SubSeq(live, 1, Len(live) - 2),
                             [Top EXCEPT !.kind = source.kind, !.restored = TRUE])
    /\ last' = [Returned("~_pushed_state", "moved_from")
                  EXCEPT !.arg = IF << pointer_mode', any_order' >> = override_fields
                                 THEN 0 ELSE 1]
    /\ UNCHANGED << memory_fields, query_fields, aborted, recorded, reported >>
    /\ UNCHANGED << logging_fields, gsu_fields, call, threads, position >>

\* The code inside the scope assigns the public field pointer_mode directly.
SetPointerMode ==
    /\ ~aborted
    /\ \E mode \in PointerModes :
          /\ pointer_mode' = mode
          /\ last' = Returned("set_pointer_mode", mode)
    /\ UNCHANGED << any_order, memory_fields, query_fields, live, aborted,
                    recorded, reported >>
    /\ UNCHANGED << logging_fields, gsu_fields, call, threads, position >>

\* The code inside the scope assigns the public field any_order directly.
SetAnyOrder ==
    /\ ~aborted
    /\ \E b \in BOOLEAN :
          /\ any_order' = b
          /\ last' = Returned("set_any_order", IF b THEN "true" ELSE "false")
    /\ UNCHANGED << pointer_mode, memory_fields, query_fields, live, aborted,
                    recorded, reported >>
    /\ UNCHANGED << logging_fields, gsu_fields, call, threads, position >>

\* ------------------------------------------------------------ the routines

\* The bits of rocblas_layer_mode that make a routine log.
LogBits == {"trace", "bench", "profile"}

\* What decides the path of rocblas_her_impl: handle is null; uplo is lower or
\* upper; !(n < 0 || !incx || lda < n || lda < 1); !n; x, A and alpha non-null.
HerArgs ==
    [handle_null : BOOLEAN, value_ok : BOOLEAN, size_ok : BOOLEAN,
     degenerate : BOOLEAN, pointers_ok : BOOLEAN]

\* What decides the path of rocblas_gbmv_batched_impl: handle is null; the
\* size test of line 521 passes; !m || !n || !batch_count; A, x, y, alpha and
\* beta non-null.
GbmvArgs ==
    [handle_null : BOOLEAN, size_ok : BOOLEAN, degenerate : BOOLEAN,
     pointers_ok : BOOLEAN]

\* What the kernel backend (rocblas_her_template, rocblas_gbmv_template) gives
\* back: a status of its own, propagated unchanged, or an exception.
BackendOutcomes == {"success", "backend_error", "bad_alloc", "exception"}

\* The logging modes the caller sets.
LayerModes == { {}, {"bench"}, LogBits }

\* What the numerics-validation collaborator returns.
NumericsOutcomes == {"success", "check_numerics_fail"}

\* The statuses of precondition errors.
PreconditionErrors ==
    {"invalid_handle", "invalid_value", "invalid_size", "invalid_pointer"}

\* A call that returned before it did anything.
Quiet(routine, args, status) == Call(routine, args, status, {}, 0, 0, 0)

\* A plausible slip: the null test of the handle is missing.
handle_unchecked(args) == FALSE

\* if(!handle) return rocblas_status_invalid_handle;
handle_is_null(args) == args.handle_null

\* A plausible slip: the routine does not look at the size-query mode.
size_query_ignored == FALSE

\* RETURN_ZERO_DEVICE_MEMORY_SIZE_IF_QUERIED(handle):
\*   if((h)->is_device_memory_size_query()) return rocblas_status_size_unchanged;
is_device_memory_size_query == device_memory_size_query

\* The log functions rocblas_her_impl calls: log_bench only in host pointer mode.
her_logs == {b \in layer_mode : b # "bench" \/ pointer_mode = "host"}

\* The log functions rocblas_gbmv_batched_impl calls.
gbmv_logs == layer_mode

\* A plausible slip: the pointers are validated inside the backend template,
\* after the dispatch.
her_impl_pointers_checked_late(args, backend) ==
    IF handle_is_null(args) THEN Quiet("rocblas_her", args, "invalid_handle")
    ELSE IF is_device_memory_size_query
    THEN Quiet("rocblas_her", args, "size_unchanged")
    ELSE IF ~args.value_ok
    THEN Call("rocblas_her", args, "invalid_value", her_logs, 0, 0, 0)
    ELSE IF ~args.size_ok
    THEN Call("rocblas_her", args, "invalid_size", her_logs, 0, 0, 0)
    ELSE IF args.degenerate
    THEN Call("rocblas_her", args, "success", her_logs, 0, 0, 0)
    ELSE IF ~args.pointers_ok
    THEN Dispatched(Call("rocblas_her", args, "invalid_pointer", her_logs, 0, 0, 1),
                    backend)
    ELSE Dispatched(Call("rocblas_her", args, backend, her_logs, 0, 0, 1), backend)

\* rocblas_status rocblas_her_impl(handle, uplo, n, alpha, x, incx, A, lda):
\* the record of the call, its status "exception" when the backend threw.
rocblas_her_impl(args, backend) ==
    IF handle_is_null(args) THEN Quiet("rocblas_her", args, "invalid_handle")
    ELSE IF is_device_memory_size_query
    THEN Quiet("rocblas_her", args, "size_unchanged")
    ELSE IF ~args.value_ok
    THEN Call("rocblas_her", args, "invalid_value", her_logs, 0, 0, 0)
    ELSE IF ~args.size_ok
    THEN Call("rocblas_her", args, "invalid_size", her_logs, 0, 0, 0)
    ELSE IF args.degenerate
    THEN Call("rocblas_her", args, "success", her_logs, 0, 0, 0)
    ELSE IF ~args.pointers_ok
    THEN Call("rocblas_her", args, "invalid_pointer", her_logs, 0, 0, 0)
    ELSE Dispatched(Call("rocblas_her", args, backend, her_logs, 0, 0, 1), backend)

\* A plausible slip: the zero sizes are tested before the invalid ones.
gbmv_impl_degenerate_first(args, numerics_in, backend, numerics_out) ==
    IF handle_is_null(args)
    THEN Quiet("rocblas_gbmv_batched", args, "invalid_handle")
    ELSE IF is_device_memory_size_query
    THEN Quiet("rocblas_gbmv_batched", args, "size_unchanged")
    ELSE IF args.degenerate
    THEN Call("rocblas_gbmv_batched", args, "success", gbmv_logs, 0, 0, 0)
    ELSE IF ~args.size_ok
    THEN Call("rocblas_gbmv_batched", args, "invalid_size", gbmv_logs, 0, 0, 0)
    ELSE IF ~args.pointers_ok
    THEN Call("rocblas_gbmv_batched", args, "invalid_pointer", gbmv_logs, 0, 0, 0)
    ELSE IF check_numerics /\ numerics_in # "success"
    THEN Call("rocblas_gbmv_batched", args, numerics_in, gbmv_logs, 1, 0, 0)
    ELSE LET checked == IF check_numerics THEN 1 ELSE 0
         IN  Dispatched(
               IF backend # "success"
               THEN Call("rocblas_gbmv_batched", args, backend, gbmv_logs,
                         checked, 0, 1)
               ELSE IF check_numerics /\ numerics_out # "success"
               THEN Call("rocblas_gbmv_batched", args, numerics_out, gbmv_logs,
                         checked + 1, 0, 1)
               ELSE Call("rocblas_gbmv_batched", args, "success", gbmv_logs,
                         checked + checked, 0, 1),
               backend)

\* A plausible slip: the outputs are validated whatever the backend returned.
gbmv_impl_checks_output_always(args, numerics_in, backend, numerics_out) ==
    IF handle_is_null(args)
    THEN Quiet("rocblas_gbmv_batched", args, "invalid_handle")
    ELSE IF is_device_memory_size_query
    THEN Quiet("rocblas_gbmv_batched", args, "size_unchanged")
    ELSE IF ~args.size_ok
    THEN Call("rocblas_gbmv_batched", args, "invalid_size", gbmv_logs, 0, 0, 0)
    ELSE IF args.degenerate
    THEN Call("rocblas_gbmv_batched", args, "success", gbmv_logs, 0, 0, 0)
    ELSE IF ~args.pointers_ok
    THEN Call("rocblas_gbmv_batched", args, "invalid_pointer", gbmv_logs, 0, 0, 0)
    ELSE IF check_numerics /\ numerics_in # "success"
    THEN Call("rocblas_gbmv_batched", args, numerics_in, gbmv_logs, 1, 0, 0)
    ELSE LET checked == IF check_numerics THEN 1 ELSE 0
         IN  Dispatched(
               IF backend # "success"
               THEN Call("rocblas_gbmv_batched", args, backend, gbmv_logs,
                         checked + checked, 0, 1)
               ELSE IF check_numerics /\ numerics_out # "success"
               THEN Call("rocblas_gbmv_batched", args, numerics_out, gbmv_logs,
                         checked + 1, 0, 1)
               ELSE Call("rocblas_gbmv_batched", args, "success", gbmv_logs,
                         checked + checked, 0, 1),
               backend)

\* rocblas_status rocblas_gbmv_batched_impl(handle, transA, m, n, kl, ku, alpha,
\* A, lda, x, incx, beta, y, incy, batch_count): the record of the call;
\* numerics_in and numerics_out are what rocblas_gbmv_check_numerics returns
\* for the inputs and for the outputs.
rocblas_gbmv_batched_impl(args, numerics_in, backend, numerics_out) ==
    IF handle_is_null(args)
    THEN Quiet("rocblas_gbmv_batched", args, "invalid_handle")
    ELSE IF is_device_memory_size_query
    THEN Quiet("rocblas_gbmv_batched", args, "size_unchanged")
    ELSE IF ~args.size_ok
    THEN Call("rocblas_gbmv_batched", args, "invalid_size", gbmv_logs, 0, 0, 0)
    ELSE IF args.degenerate
    THEN Call("rocblas_gbmv_batched", args, "success", gbmv_logs, 0, 0, 0)
    ELSE IF ~args.pointers_ok
    THEN Call("rocblas_gbmv_batched", args, "invalid_pointer", gbmv_logs, 0, 0, 0)
    ELSE IF check_numerics /\ numerics_in # "success"
    THEN Call("rocblas_gbmv_batched", args, numerics_in, gbmv_logs, 1, 0, 0)
    ELSE LET checked == IF check_numerics THEN 1 ELSE 0
         IN  Dispatched(
               IF backend # "success"
               THEN Call("rocblas_gbmv_batched", args, backend, gbmv_logs,
                         checked, 0, 1)
               ELSE IF check_numerics /\ numerics_out # "success"
               THEN Call("rocblas_gbmv_batched", args, numerics_out, gbmv_logs,
                         checked + 1, 0, 1)
               ELSE Call("rocblas_gbmv_batched", args, "success", gbmv_logs,
                         checked + checked, 0, 1),
               backend)

\* A plausible slip: the wrapper has no function-try-block, what the
\* implementation throws leaves the entry point.
Unconverted(c) == [c EXCEPT !.seq = 1 - call.seq]

\* try { return impl(...); } catch(...) { return exception_to_rocblas_status(); }
\* The call is the next one on the handle.
Wrapped(c) ==
    [c EXCEPT !.status = IF c.status = "bad_alloc" THEN "memory_error"
                         ELSE IF c.status = "exception" THEN "internal_error"
                         ELSE c.status,
              !.seq = 1 - call.seq]

\* rocblas_cher / rocblas_zher
rocblas_her ==
    /\ ~aborted
    /\ \E args \in HerArgs, backend \in BackendOutcomes :
          call' = Wrapped(rocblas_her_impl(args, backend))
    /\ UNCHANGED << handle, live, aborted, recorded, reported, last, threads, position >>

\* rocblas_sgbmv_batched / dgbmv_batched / cgbmv_batched / zgbmv_batched
rocblas_gbmv_batched ==
    /\ ~aborted
    /\ \E args \in GbmvArgs, numerics_in \in NumericsOutcomes,
          backend \in BackendOutcomes, numerics_out \in NumericsOutcomes :
          call' = Wrapped(rocblas_gbmv_batched_impl(args, numerics_in, backend,
                                                    numerics_out))
    /\ UNCHANGED << handle, live, aborted, recorded, reported, last, threads, position >>

\* The caller sets the logging mode of the handle.
SetLayerMode ==
    /\ ~aborted
    /\ \E mode \in LayerModes : layer_mode' = mode
    /\ UNCHANGED << check_numerics, memory_fields, query_fields, override_fields,
                    gsu_fields, live, aborted, recorded, reported, last, call, threads, position >>

\* The caller sets the numerics-checking flag of the handle.
SetCheckNumerics ==
    /\ ~aborted
    /\ \E b \in BOOLEAN : check_numerics' = b
    /\ UNCHANGED << layer_mode, memory_fields, query_fields, override_fields,
                    gsu_fields, live, aborted, recorded, reported, last, call, threads, position >>

\* ---------------------------------------------- gbmv_batched, step by step

\* A plausible slip: the body tests handle->check_numerics where it needs
\* the flag, not a copy taken at entry.
numerics_flag_reread == check_numerics

\* The local of line 448, auto check_numerics = handle->check_numerics, the
\* operand of the tests of lines 531 and 584.
numerics_flag == position.check_numerics

\* The routine returns status.
Return(status) == [position EXCEPT !.pc = "returned", !.status = status]

\* Lines 443-448: the handle is tested, a size query answered, and the logging
\* mode and the numerics-checking flag are copied to locals.
GbmvEnter ==
    /\ ~aborted
    /\ position.pc \in {"idle", "returned"}
    /\ \E args \in GbmvArgs :
          position' =
             IF handle_is_null(args)
             THEN [Position("returned", args, FALSE) EXCEPT !.status = "invalid_handle"]
             ELSE IF is_device_memory_size_query
             THEN [Position("returned", args, FALSE) EXCEPT !.status = "size_unchanged"]
             ELSE Position("entered", args, check_numerics)
    /\ UNCHANGED << handle, live, aborted, recorded, reported, last, call, threads >>

\* Lines 449-529: logging, then the tests of the sizes and of the pointers.
GbmvValidate ==
    /\ ~aborted
    /\ position.pc = "entered"
    /\ position' =
          IF ~position.args.size_ok THEN Return("invalid_size")
          ELSE IF position.args.degenerate THEN Return("success")
          ELSE IF ~position.args.pointers_ok THEN Return("invalid_pointer")
          ELSE [position EXCEPT !.pc = "validated"]
    /\ UNCHANGED << handle, live, aborted, recorded, reported, last, call, threads >>

\* Lines 531-557: if(check_numerics), rocblas_gbmv_check_numerics is called
\* with is_input = true, and a status other than success is returned.
GbmvCheckInputs ==
    /\ ~aborted
    /\ position.pc = "validated"
    /\ IF numerics_flag
       THEN \E r \in NumericsOutcomes :
              position' =
                 [(IF r # "success" THEN Return(r)
                   ELSE [position EXCEPT !.pc = "checked"])
                  EXCEPT !.steps = Append(position.steps, "check_inputs"),
                         !.numerics_in = r]
       ELSE position' = [position EXCEPT !.pc = "checked"]
    /\ UNCHANGED << handle, live, aborted, recorded, reported, last, call, threads >>

\* Lines 559-582: rocblas_gbmv_template is called, and a status other than
\* success is returned (what it throws leaves the routine).
GbmvDispatch ==
    /\ ~aborted
    /\ position.pc = "checked"
    /\ \E b \in BackendOutcomes :
          position' =
             [(IF b # "success" THEN Return(b)
               ELSE [position EXCEPT !.pc = "dispatched"])
              EXCEPT !.steps = Append(position.steps, "dispatch"),
                     !.backend = b]
    /\ UNCHANGED << handle, live, aborted, recorded, reported, last, call, threads >>

\* Lines 584-611: if(check_numerics), rocblas_gbmv_check_numerics is called
\* with is_input = false and a status other than success is returned; then
\* the status of the backend is.
GbmvCheckOutputs ==
    /\ ~aborted
    /\ position.pc = "dispatched"
    /\ IF numerics_flag
       THEN \E r \in NumericsOutcomes :
              position' =
                 [Return(IF r # "success" THEN r ELSE position.backend)
                  EXCEPT !.steps = Append(position.steps, "check_outputs")]
       ELSE position' = Return(position.backend)
    /\ UNCHANGED << handle, live, aborted, recorded, reported, last, call, threads >>

\* ------------------------------------------------------------ two threads

\* A handle and the history of the operations on it.
Snapshot ==
    [handle |-> handle, live |-> live, aborted |-> aborted,
     recorded |-> recorded, reported |-> reported, last |-> last, call |-> call]

\* A handle as its constructor leaves it, query_size being what the
\* uninitialized member device_memory_query_size holds.
NewHandle(query_size) ==
    [handle |-> << 0, query_size, NULL, FALSE, FALSE, FALSE, "host", FALSE, {},
                   FALSE, 0, NULL >>,
     live |-> << >>, aborted |-> FALSE, recorded |-> {}, reported |-> -1,
     last |-> Returned("create", "success"), call |-> NoCall]

\* The second thread creates its handle.
CreateSecondHandle ==
    /\ ~aborted
    /\ other = NoHandle
    /\ \E query_size \in Indeterminate : other' = NewHandle(query_size)
    /\ UNCHANGED << handle, live, aborted, recorded, reported, last, call, focus, position >>

\* A plausible slip: device_memory_in_use is declared static, one flag for
\* all handles, so the thread that runs next finds the flag as the other
\* thread left it.
fields_with_static_flag(h) == [h EXCEPT ![5] = device_memory_in_use]

\* The fields of the handle a thread passes to its calls: all of them are
\* non-static members of _rocblas_handle, one of each per handle.
fields_of(h) == h

\* The scheduler runs the other thread: the operations that follow are called
\* with that thread's handle. An abort ends the process, with both threads.
SwitchThread ==
    /\ ~aborted
    /\ other # NoHandle
    /\ focus' = 3 - focus
    /\ other' = Snapshot
    /\ device_memory_size' = fields_of(other.handle)[1]
    /\ device_memory_query_size' = fields_of(other.handle)[2]
    /\ device_memory' = fields_of(other.handle)[3]
    /\ device_memory_is_rocblas_managed' = fields_of(other.handle)[4]
    /\ device_memory_in_use' = fields_of(other.handle)[5]
    /\ device_memory_size_query' = fields_of(other.handle)[6]
    /\ pointer_mode' = fields_of(other.handle)[7]
    /\ any_order' = fields_of(other.handle)[8]
    /\ layer_mode' = fields_of(other.handle)[9]
    /\ check_numerics' = fields_of(other.handle)[10]
    /\ gsu_workspace_size' = fields_of(other.handle)[11]
    /\ gsu_workspace' = fields_of(other.handle)[12]
    /\ live' = other.live
    /\ aborted' = other.aborted
    /\ recorded' = other.recorded
    /\ reported' = other.reported
    /\ last' = other.last
    /\ call' = other.call
    /\ UNCHANGED position

\* The arguments of a her call that passes every check.
ValidHerArgs ==
    [handle_null |-> FALSE, value_ok |-> TRUE, size_ok |-> TRUE,
     degenerate |-> FALSE, pointers_ok |-> TRUE]

\* The first thread calls routines and allocates scratch memory.
FirstThreadRoutine == focus = 1 /\ rocblas_her /\ call'.args = ValidHerArgs

FirstThreadSetBlockSize == focus = 1 /\ SetBlockSize

FirstThreadAllocation == focus = 1 /\ gsu_malloc

FirstThreadScopeExit == focus = 1 /\ GsuScopeExit

\* The second thread overrides any_order and runs size queries.
SecondThreadOverride == focus = 2 /\ PushAnyOrder

SecondThreadScopeExit == focus = 2 /\ GuardScopeExit

SecondThreadBeginQuery == focus = 2 /\ begin_size_query

SecondThreadEndQuery == focus = 2 /\ end_size_query

\* ------------------------------------------------------ the rounding alone

\* roundup_device_memory_size applied to any size_t.
Roundup ==
    /\ \E size \in 0..SIZE_MAX :
          last' = [op |-> "roundup_device_memory_size", status |-> "success",
                   arg |-> size, val |-> roundup_device_memory_size(size)]
    /\ UNCHANGED << handle, live, aborted, recorded, reported, call, threads, position >>

\* ---------------------------------------------------------- specifications

\* The arena: memory blocks, allocations and size queries on one handle.
Next ==
    \/ DeviceMalloc
    \/ AllocationScopeExit
    \/ AttachCallerBlock
    \/ SetBlockSize

Spec == Init /\ [][Next]_vars

\* The arena with allocation objects that are moved.
NextMoveAllocation ==
    \/ DeviceMalloc
    \/ MoveAllocation
    \/ AllocationScopeExit
    \/ AttachCallerBlock
    \/ SetBlockSize

SpecMoveAllocation == Init /\ [][NextMoveAllocation]_vars

\* The arena with GSU scratch objects beside the ordinary allocations.
NextGsu ==
    \/ DeviceMalloc
    \/ AllocationScopeExit
    \/ gsu_malloc
    \/ GsuScopeExit
    \/ AttachCallerBlock
    \/ SetBlockSize

SpecGsu == Init /\ [][NextGsu]_vars

\* A routine that needs scratch memory is entered with no allocation live: in
\* a size query it records its requirement and returns, otherwise it allocates.
RoutineWithScratch ==
    /\ live = << >>
    /\ \E sizes \in Requests :
          IF device_memory_size_query
          THEN set_optimal_device_memory_size(sizes)
          ELSE device_malloc(sizes)

\* Sizing a caller-managed block by a size query, then running the routines.
NextQuery ==
    \/ begin_size_query
    \/ end_size_query
    \/ AttachQueriedBlock
    \/ RoutineWithScratch
    \/ SetOptimalDeviceMemorySize
    \/ AllocationScopeExit

SpecQuery == Init /\ [][NextQuery]_vars

\* The context overrides on one handle.
NextOverride ==
    \/ PushPointerMode
    \/ PushAnyOrder
    \/ GuardScopeExit
    \/ SetPointerMode
    \/ SetAnyOrder

SpecOverride == Init /\ [][NextOverride]_vars

\* The context overrides with guards that are moved.
NextMove ==
    \/ PushPointerMode
    \/ PushAnyOrder
    \/ GuardScopeExit
    \/ MoveGuard
    \/ MovedGuardScopeExit
    \/ MovedFromScopeExit
    \/ SetPointerMode
    \/ SetAnyOrder

SpecMove == Init /\ [][NextMove]_vars

\* Two threads with one handle each, in every interleaving.
NextThreads ==
    \/ CreateSecondHandle
    \/ SwitchThread
    \/ FirstThreadRoutine
    \/ FirstThreadSetBlockSize
    \/ FirstThreadAllocation
    \/ FirstThreadScopeExit
    \/ SecondThreadOverride
    \/ SecondThreadScopeExit
    \/ SecondThreadBeginQuery
    \/ SecondThreadEndQuery

SpecThreads == Init /\ [][NextThreads]_vars

\* The routines that need no scratch memory, in and out of a size query.
NextRoutine ==
    \/ rocblas_her
    \/ rocblas_gbmv_batched
    \/ SetLayerMode
    \/ SetCheckNumerics
    \/ SetPointerMode
    \/ begin_size_query
    \/ end_size_query

SpecRoutine == Init /\ [][NextRoutine]_vars

\* gbmv_batched step by step; the flag of the handle can be written, and a
\* size query opened or closed, between two steps of a call.
NextNumerics ==
    \/ GbmvEnter
    \/ GbmvValidate
    \/ GbmvCheckInputs
    \/ GbmvDispatch
    \/ GbmvCheckOutputs
    \/ SetCheckNumerics
    \/ begin_size_query
    \/ end_size_query

SpecNumerics == Init /\ [][NextNumerics]_vars

\* The rounding function on every size_t.
SpecRoundup == Init /\ [][Roundup]_vars

\* ============================================================== properties

\* ------------------------------------------------- reference arithmetic

\* The least multiple of the chunk that is at least s, over the naturals.
ChunkCeil(s) == ((s + MIN_CHUNK_SIZE - 1) \div MIN_CHUNK_SIZE) * MIN_CHUNK_SIZE

RECURSIVE SumCeil(_)
\* The sum over the naturals of the sizes, each rounded up to the chunk.
SumCeil(sizes) ==
    IF sizes = << >> THEN 0 ELSE ChunkCeil(Head(sizes)) + SumCeil(Tail(sizes))

\* The largest element of a non-empty set of naturals.
Maximum(S) == CHOOSE m \in S : \A t \in S : t <= m

\* The size lists recorded in the current (or last) query session.
RecordedSizes == {r.sizes : r \in recorded}

\* The maximum over the recordings of the sum of the rounded sizes; 0 if none.
RecordedMaximum == Maximum({SumCeil(sizes) : sizes \in RecordedSizes} \cup {0})

\* A step that constructs an object, and the object it constructs.
Pushes == Len(live') = Len(live) + 1

New == live'[Len(live')]

\* A step that destroys the innermost object.
Pops == Len(live') = Len(live) - 1

\* A device_malloc call: it constructs an allocation or aborts the process.
DeviceMallocStep == (Pushes /\ New.kind = "malloc") \/ (~aborted /\ aborted')

Slots(a) == 1..Len(a.sizes)

NonzeroSlots(a) == {i \in Slots(a) : a.sizes[i] # 0}

AllNull(a) == \A i \in Slots(a) : a.pointers[i] = NULL

\* The bytes [pointer_i, pointer_i + size_i) lie in the block [base, base + size).
InsideBlock(a, i, base, size) ==
    /\ a.pointers[i] >= base
    /\ a.pointers[i] + a.sizes[i] <= base + size

DisjointRegions(a, i, j) ==
    \/ a.pointers[i] + a.sizes[i] <= a.pointers[j]
    \/ a.pointers[j] + a.sizes[j] <= a.pointers[i]

BlockUnchanged ==
    /\ device_memory' = device_memory
    /\ device_memory_size' = device_memory_size

\* The last operation was a device_malloc and its object is the innermost one.
JustAllocated ==
    /\ last.op = "device_malloc"
    /\ last.status # "abort"
    /\ live # << >>
    /\ Top.kind = "malloc"

\* --------------------------------------------------------------------- C1
\* C1: in a size-query session the accumulated size is, after every recording
\* and when the session ends, the maximum over the recordings made of the sum
\* of the sizes each rounded up to the chunk. (A function of the set of
\* recordings is the same for every order of recording.)
C1_ReportedIsMaximum ==
    /\ device_memory_size_query => device_memory_query_size = RecordedMaximum
    /\ (~device_memory_size_query /\ reported >= 0) => reported = RecordedMaximum

\* --------------------------------------------------------------------- C2
\* C2: a request executed with device_malloc gets the total that
\* set_optimal_device_memory_size recorded for the same sizes, and on a
\* caller-managed block whose size is what the session reported it succeeds.
C2_QueriedBlockSuffices ==
    \A r \in recorded :
        (JustAllocated /\ Top.sizes = r.sizes) =>
            /\ Top.total = r.total
            /\ (/\ ~device_memory_size_query
                /\ ~device_memory_is_rocblas_managed
                /\ device_memory_size = reported) => Top.success

\* The largest of two recorded requests runs in a block of the reported size.
C2_Witness ==
    /\ JustAllocated
    /\ Cardinality(recorded) = 2
    /\ Top.sizes \in RecordedSizes
    /\ ~device_memory_is_rocblas_managed
    /\ device_memory_size = reported
    /\ Top.total = reported
    /\ reported > 0
    /\ Top.success

\* --------------------------------------------------------------------- C3
\* C3: device_malloc on an idle handle whose block has exactly the size of the
\* sum of the rounded-up sizes succeeds, and the regions of the nonzero
\* requests lie inside the block and are pairwise disjoint.
C3_SufficientBlock ==
    [][ (/\ Pushes
         /\ New.kind = "malloc"
         /\ ~device_memory_in_use
         /\ device_memory_size = SumCeil(New.sizes))
        => /\ New.success
           /\ \A i \in NonzeroSlots(New) :
                 InsideBlock(New, i, device_memory, device_memory_size)
           /\ \A i, j \in NonzeroSlots(New) :
                 i # j => DisjointRegions(New, i, j) ]_vars

\* device_malloc(50, 0, 100) has succeeded on an idle handle with 192 bytes.
C3_Witness ==
    /\ JustAllocated
    /\ Len(live) = 1
    /\ Top.sizes = <<50, 0, 100>>
    /\ device_memory_size = 192
    /\ Top.success
    /\ Top.pointers[1] # NULL
    /\ Top.pointers[3] # NULL

\* --------------------------------------------------------------------- C4
\* C4: whenever the block is smaller than the sum of the rounded-up requested
\* sizes, device_malloc fails: the allocation converts to false, every pointer
\* is null and the block (pointer and size) is unchanged.
C4_ExhaustionFails ==
    [][ (/\ Pushes
         /\ New.kind = "malloc"
         /\ device_memory_size < SumCeil(New.sizes))
        => /\ ~New.success
           /\ AllNull(New)
           /\ BlockUnchanged ]_vars

\* --------------------------------------------------------------------- C5
\* C5: a failed allocation leaves the block as it was, when it is constructed
\* and when its scope ends; after its scope ends the in-use guard is clear; and
\* a device_malloc that follows, whose total fits in the block, succeeds.
C5_FailedAllocationLeavesHandleUsable ==
    [][ /\ (Pushes /\ New.kind = "malloc" /\ ~New.success) => BlockUnchanged
        /\ (Pops /\ Top.kind = "malloc" /\ ~Top.success)
              => (BlockUnchanged /\ ~device_memory_in_use')
        /\ (/\ last.op = "~_device_malloc"
            /\ last.status = "failed"
            /\ DeviceMallocStep
            /\ last'.val <= device_memory_size)
              => (Pushes /\ New.success) ]_vars

\* The scope of a failed allocation on a 64-byte block has ended.
C5_Witness ==
    /\ last.op = "~_device_malloc"
    /\ last.status = "failed"
    /\ live = << >>
    /\ ~device_memory_in_use
    /\ device_memory # NULL
    /\ device_memory_size = 64

\* --------------------------------------------------------------------- C6
\* C6: at most one live allocation holds pointers into the handle's block.
C6_OneHolder ==
    Cardinality({i \in 1..Len(live) :
                    live[i].kind = "malloc" /\ ~AllNull(live[i])}) <= 1

\* --------------------------------------------------------------------- C7
\* C7: when a guard returned by push_pointer_mode or push_any_order is
\* destroyed, however its scope is left, the field equals the value it had
\* immediately before the push.
C7_OverrideRestored ==
    [][ (Pops /\ Top.kind = "pushed")
        => /\ Top.field = "pointer_mode" => pointer_mode' = Top.before
           /\ Top.field = "any_order" => any_order' = Top.before ]_vars

\* A guard was unwound by an exception and its destructor changed the field.
C7_Witness ==
    /\ last.op = "~_pushed_state"
    /\ last.status = "exception"
    /\ last.arg = 1

\* --------------------------------------------------------------------- C8
\* C8: for every size s >= 1 of size_t, roundup_device_memory_size(s) is a
\* multiple of the chunk, is at least s and is less than s + chunk.
C8_RoundupBounds ==
    (last.op = "roundup_device_memory_size" /\ last.arg >= 1)
        => /\ last.val % MIN_CHUNK_SIZE = 0
           /\ last.val >= last.arg
           /\ last.val < last.arg + MIN_CHUNK_SIZE

\* --------------------------------------------------------------------- C9
\* The size list without slot i.
RemoveAt(sizes, i) == SubSeq(sizes, 1, i - 1) \o SubSeq(sizes, i + 1, Len(sizes))

\* The offset slot j has when the zero-sized slot i is left out of the request.
OffsetWithout(sizes, i, j) ==
    Wrap(SumCeil(SubSeq(RemoveAt(sizes, i), 1, (IF j < i THEN j ELSE j - 1) - 1)))

\* C9: in an allocation of several sizes, a zero-sized slot has a null
\* pointer, the total is that of the request without the slot, every other
\* nonzero slot has the pointer it has without the slot, and the allocation
\* succeeds whenever its total fits in the block.
C9_ZeroSizedSlot ==
    (JustAllocated /\ Len(Top.sizes) >= 2) =>
        \A i \in Slots(Top) :
            Top.sizes[i] = 0 =>
                /\ Top.pointers[i] = NULL
                /\ Top.total = Wrap(SumCeil(RemoveAt(Top.sizes, i)))
                /\ \A j \in NonzeroSlots(Top) :
                      (Top.success /\ Top.total # 0) =>
                          Top.pointers[j] = device_memory + OffsetWithout(Top.sizes, i, j)
                /\ (Top.total <= device_memory_size => Top.success)

\* device_malloc(0, 50): pointer[0] null, pointer[1] non-null, success.
C9_Witness ==
    /\ JustAllocated
    /\ Top.sizes = <<0, 50>>
    /\ Top.pointers[1] = NULL
    /\ Top.pointers[2] # NULL
    /\ Top.success

\* -------------------------------------------------------------------- C10
\* C10: a device_malloc whose total is 0 constructs a successful allocation
\* with every pointer null and does not call the allocator: the block, its
\* size, its ownership and the in-use guard are as before, also when the
\* guard was set.
C10_EmptyRequestTouchesNothing ==
    [][ (DeviceMallocStep /\ last'.val = 0)
        => /\ Pushes
           /\ New.success
           /\ AllNull(New)
           /\ memory_fields' = memory_fields
           /\ ~aborted' ]_vars

\* device_malloc(0, 0) was called while another allocation held the block.
C10_Witness ==
    /\ JustAllocated
    /\ Len(live) = 2
    /\ Top.sizes = <<0, 0>>
    /\ Top.success
    /\ AllNull(Top)
    /\ device_memory_in_use

\* -------------------------------------------------------------------- C11
\* A step of the library on a handle in caller-managed mode: an allocation, a
\* GSU scratch request or a scope exit (not the caller configuring the block).
CallerManagedStep ==
    /\ ~device_memory_is_rocblas_managed
    /\ device_memory # NULL
    /\ last'.op \notin {"attach_caller_block", "set_block_size"}

\* C11: on a handle in caller-managed mode no allocation, GSU scratch request
\* or scope exit changes the block's pointer, size or ownership, and every
\* request whose sum of rounded-up sizes exceeds the size of the block fails.
C11_CallerBlockFixed ==
    [][ CallerManagedStep
        => /\ BlockUnchanged
           /\ ~device_memory_is_rocblas_managed'
           /\ (Pushes /\ SumCeil(New.sizes) > device_memory_size)
                 => ~New.success ]_vars

\* A request of nearly SIZE_MAX bytes on a caller-managed block of 64 bytes
\* was answered with a successful allocation.
C11_Witness ==
    /\ JustAllocated
    /\ ~device_memory_is_rocblas_managed
    /\ device_memory # NULL
    /\ device_memory_size = 64
    /\ Top.sizes = << BigSize >>
    /\ Top.success
    /\ AllNull(Top)

\* -------------------------------------------------------------------- C12
\* C12: on a library-managed handle, a device_malloc whose sum of rounded-up
\* sizes T exceeds the size of the block leaves a block of at least T bytes
\* and succeeds with a non-null pointer for every nonzero size.
C12_ManagedBlockGrows ==
    [][ (/\ Pushes
         /\ New.kind = "malloc"
         /\ device_memory_is_rocblas_managed
         /\ SumCeil(New.sizes) > device_memory_size)
        => /\ device_memory_size' >= SumCeil(New.sizes)
           /\ New.success
           /\ \A i \in NonzeroSlots(New) : New.pointers[i] # NULL ]_vars

\* A request of nearly SIZE_MAX bytes on a library-managed handle with no
\* block was answered with a successful allocation and no block.
C12_Witness ==
    /\ JustAllocated
    /\ device_memory_is_rocblas_managed
    /\ device_memory_size = 0
    /\ Top.sizes = << BigSize >>
    /\ Top.success
    /\ AllNull(Top)

\* -------------------------------------------------------------------- C13
\* A step that is a call of a routine (rocblas_her, rocblas_gbmv_batched).
RoutineStep == call'.seq # call.seq

\* The call did nothing but return: no logging, no numerics validation, no
\* allocation, no dispatch.
DidNothing(c) ==
    /\ c.logged = {}
    /\ c.validated = 0
    /\ c.allocated = 0
    /\ c.dispatched = 0

\* C13: a routine called with a null handle returns invalid_handle, whatever
\* its other arguments are, has logged, validated, allocated and dispatched
\* nothing, and has changed no state.
C13_NullHandleFirst ==
    [][ (RoutineStep /\ call'.args.handle_null)
        => /\ call'.status = "invalid_handle"
           /\ DidNothing(call')
           /\ UNCHANGED << handle, live, aborted, recorded, reported >> ]_vars

\* gbmv_batched was called with a null handle and with invalid sizes and
\* pointers, on a process that logs and checks numerics.
C13_Witness ==
    /\ call.routine = "rocblas_gbmv_batched"
    /\ call.args.handle_null
    /\ ~call.args.size_ok
    /\ ~call.args.pointers_ok
    /\ call.status = "invalid_handle"
    /\ layer_mode = LogBits
    /\ check_numerics

\* -------------------------------------------------------------------- C14
\* C14: while the handle is in a size query, a call of her or gbmv_batched
\* with a handle returns size_unchanged whatever its other arguments are, has
\* logged, validated, allocated and dispatched nothing, and leaves the
\* accumulated query size and the rest of the handle unchanged.
C14_QueriedRoutineReturnsAtOnce ==
    [][ (RoutineStep /\ device_memory_size_query /\ ~call'.args.handle_null)
        => /\ call'.status = "size_unchanged"
           /\ DidNothing(call')
           /\ UNCHANGED << handle, live, aborted, recorded, reported >> ]_vars

\* her was called in a size query with an invalid uplo, an invalid size and
\* null pointers, on a handle that logs.
C14_Witness ==
    /\ device_memory_size_query
    /\ call.routine = "rocblas_her"
    /\ ~call.args.handle_null
    /\ ~call.args.value_ok
    /\ ~call.args.size_ok
    /\ ~call.args.pointers_ok
    /\ call.status = "size_unchanged"
    /\ layer_mode = LogBits

\* -------------------------------------------------------------------- C20
\* C20: a call of her or gbmv_batched that returns invalid_handle,
\* invalid_value, invalid_size or invalid_pointer has run no numerics
\* validation, made no arena allocation and no backend dispatch, and has left
\* the arena as it was.
C20_PreconditionErrorsComeFirst ==
    [][ (RoutineStep /\ call'.status \in PreconditionErrors)
        => /\ call'.validated = 0
           /\ call'.allocated = 0
           /\ call'.dispatched = 0
           /\ UNCHANGED << memory_fields, gsu_fields, live >> ]_vars

\* gbmv_batched returned invalid_pointer on a handle that logs and checks
\* numerics: it has logged and done nothing else.
C20_Witness ==
    /\ call.routine = "rocblas_gbmv_batched"
    /\ call.status = "invalid_pointer"
    /\ call.logged = LogBits
    /\ check_numerics
    /\ call.validated = 0
    /\ call.dispatched = 0

\* -------------------------------------------------------------------- C15
\* The maximum of the totals recorded in the current (or last) session; 0 if
\* the session has no recording.
SessionMaximum == Maximum({r.total : r \in recorded} \cup {0})

\* C15: beginning a size query zeroes the accumulated requirement: during a
\* session the accumulated size, and after it the size reported, is the
\* maximum of the totals recorded in that session (0 if there are none),
\* whatever an earlier session recorded and whatever the field held before.
C15_SessionStartsFromZero ==
    /\ device_memory_size_query => device_memory_query_size = SessionMaximum
    /\ (~device_memory_size_query /\ reported >= 0) => reported = SessionMaximum

\* A session without recordings has reported 0 on a handle that holds the
\* block sized by an earlier session, which reported 256.
C15_Witness ==
    /\ last.op = "end_size_query"
    /\ recorded = {}
    /\ reported = 0
    /\ device_memory_size = 256
    /\ device_memory_query_size = 0

\* -------------------------------------------------------------------- C16
\* A call of set_optimal_device_memory_size in a size query.
RecordingStep ==
    /\ device_memory_size_query
    /\ last'.op = "set_optimal_device_memory_size"

\* C16: in a size query, set_optimal_device_memory_size returns size_increased
\* exactly when the sum of the rounded-up sizes exceeds the recorded maximum,
\* and then stores that sum; otherwise it returns size_unchanged and leaves
\* the maximum, which therefore never decreases.
C16_IncreasedIffLarger ==
    [][ RecordingStep
        => LET sum == SumCeil(last'.arg)
           IN  /\ last'.status \in {"size_increased", "size_unchanged"}
               /\ last'.status = "size_increased" <=> sum > device_memory_query_size
               /\ last'.status = "size_increased" => device_memory_query_size' = sum
               /\ last'.status = "size_unchanged"
                     => device_memory_query_size' = device_memory_query_size
               /\ device_memory_query_size' >= device_memory_query_size ]_vars

\* A requirement of nearly SIZE_MAX bytes was recorded in a session whose
\* maximum was and stays 0, and size_unchanged was returned.
C16_Witness ==
    /\ device_memory_size_query
    /\ last.op = "set_optimal_device_memory_size"
    /\ last.arg = << BigSize >>
    /\ last.status = "size_unchanged"
    /\ recorded = {Recording(<< BigSize >>, 0)}
    /\ device_memory_query_size = 0

\* -------------------------------------------------------------------- C17
\* C17: set_optimal_device_memory_size called on a handle that is not in a
\* size query returns internal_error and changes no field of the handle.
C17_InternalErrorOutsideQuery ==
    [][ (~device_memory_size_query /\ last'.op = "set_optimal_device_memory_size")
        => /\ last'.status = "internal_error"
           /\ UNCHANGED << handle, live, aborted, recorded, reported >> ]_vars

\* After a session that reported 256, a requirement of nearly SIZE_MAX bytes
\* was recorded outside of a session: internal_error, the size still 256.
C17_Witness ==
    /\ ~device_memory_size_query
    /\ last.op = "set_optimal_device_memory_size"
    /\ last.status = "internal_error"
    /\ last.arg = << BigSize, 50 >>
    /\ reported = 256
    /\ device_memory_query_size = 256

\* -------------------------------------------------------------------- C18
\* No GSU scratch object is in scope.
NoGsuLive == \A i \in 1..Len(live) : live[i].kind # "gsu"

GsuFieldsEmpty == gsu_workspace = NULL /\ gsu_workspace_size = 0

\* C18: whenever no GSU scratch object is in scope, gsu_workspace is null and
\* gsu_workspace_size is 0: so the handle starts, and so the destructor of a
\* scratch object leaves it, whether its request had succeeded or failed.
C18_GsuFieldsEmptyOutsideScope ==
    /\ NoGsuLive => GsuFieldsEmpty
    /\ last.op = "~_gsu_malloc" => GsuFieldsEmpty

\* A scratch object that held the whole block of 128 bytes has been destroyed.
C18_Witness ==
    /\ last.op = "~_gsu_malloc"
    /\ last.status = "success"
    /\ last.val = 128
    /\ live = << >>
    /\ GsuFieldsEmpty

\* -------------------------------------------------------------------- C19
\* gsu_malloc is called on an idle handle that holds a block of S > 0 bytes.
GsuRequestOnIdleHandle ==
    /\ ~aborted
    /\ live = << >>
    /\ ~device_memory_in_use
    /\ device_memory_size > 0
    /\ last'.op = "gsu_malloc"

\* C19: gsu_malloc on an idle handle whose block has S > 0 bytes succeeds and
\* leaves gsu_workspace at the base of the block and gsu_workspace_size = S.
C19_GsuTakesWholeBlock ==
    [][ GsuRequestOnIdleHandle
        => /\ last'.status = "success"
           /\ gsu_workspace' = device_memory'
           /\ gsu_workspace' # NULL
           /\ gsu_workspace_size' = device_memory_size ]_vars

\* On a caller's block of 100 bytes the request has failed and the fields are
\* empty.
C19_Witness ==
    /\ last.op = "gsu_malloc"
    /\ last.status = "failed"
    /\ last.arg = 100
    /\ ~device_memory_is_rocblas_managed
    /\ device_memory_size = 100
    /\ Len(live) = 1
    /\ GsuFieldsEmpty

\* -------------------------------------------------------------------- C21
\* The values of rocblas_status that the routines of the model return.
StatusCodes ==
    PreconditionErrors
        \cup {"success", "size_unchanged", "memory_error", "internal_error",
              "backend_error", "check_numerics_fail"}

\* C21: every call of an extern "C" entry point returns a status code: what
\* the implementation throws, a failed allocation included, is caught by the
\* wrapper and converted, and nothing propagates to the caller.
C21_EntryPointReturnsStatus ==
    call.routine # "none" => call.status \in StatusCodes

\* The backend of gbmv_batched threw for a failed allocation, and the entry
\* point returned memory_error.
C21_Witness ==
    /\ call.routine = "rocblas_gbmv_batched"
    /\ call.dispatched = 1
    /\ call.status = "memory_error"

\* -------------------------------------------------------------------- C22
\* The destructor of a guard runs.
GuardDestructorStep == last'.op = "~_pushed_state" /\ Pops

\* The guard whose destructor runs.
Destroyed ==
    IF last'.status = "moved_from" THEN live[Len(live) - 1] ELSE Top

\* C22: an override is restored exactly once: when the destructor of a guard
\* runs, no destructor has run before for the same override (no second
\* restore), and no guard that stays in scope has had its override restored
\* (no early restore, and no guard left behind that will restore again); this
\* with guards that are moved.
C22_RestoredOnce ==
    [][ GuardDestructorStep
        => /\ ~Destroyed.restored
           /\ \A i \in 1..Len(live') : ~live'[i].restored ]_vars

\* The guard a pointer-mode override was moved from has been destroyed: the
\* field is back at the value before the push although the guard that took
\* over the override is still in scope.
C22_Witness ==
    /\ last.op = "~_pushed_state"
    /\ last.status = "moved_from"
    /\ last.arg = 1
    /\ Len(live) = 1
    /\ Top.field = "pointer_mode"
    /\ Top.restored
    /\ Top.before = "host"
    /\ pointer_mode = "host"

\* -------------------------------------------------------------------- C23
\* C23: the end of an allocation's scope clears the in-use guard and changes
\* no other field of the handle; so a device_malloc that follows the end of a
\* successful allocation with the same sizes succeeds in the same block,
\* which it leaves as it is, and returns the same pointers.
C23_ScopeExitKeepsBlock ==
    [][ /\ (Pops /\ Top.kind = "malloc")
              => /\ ~device_memory_in_use'
                 /\ UNCHANGED << device_memory, device_memory_size,
                                 device_memory_is_rocblas_managed, query_fields,
                                 override_fields, logging_fields, gsu_fields >>
        /\ (/\ last.op = "~_device_malloc"
            /\ last.status = "success"
            /\ DeviceMallocStep
            /\ Pushes
            /\ New.sizes = last.arg)
              => /\ New.success
                 /\ New.pointers = last.val
                 /\ BlockUnchanged ]_vars

\* The scope of device_malloc(50), which had returned address 1024, has ended
\* on a handle whose block is by now at address 2048.
C23_Witness ==
    /\ last.op = "~_device_malloc"
    /\ last.status = "success"
    /\ last.arg = << 50 >>
    /\ last.val = << 1024 >>
    /\ live = << >>
    /\ ~device_memory_in_use
    /\ device_memory = 2048

\* -------------------------------------------------------------------- C24
\* A routine call that is not stopped by the handle test or by a size query.
LoggingCallStep ==
    /\ RoutineStep
    /\ ~call'.args.handle_null
    /\ ~device_memory_size_query

\* C24: in a routine call that passes the handle and size-query checks, a
\* trace, bench or profile record is emitted if and only if the bit of that
\* channel is set in layer_mode, whatever the other bits and the pointer mode.
C24_ChannelsIndependent ==
    [][ LoggingCallStep
        => \A b \in LogBits : b \in call'.logged <=> b \in layer_mode ]_vars

\* her has run with trace and profile records and without a bench record: all
\* three bits were set, in device pointer mode.
C24_Witness ==
    /\ call.routine = "rocblas_her"
    /\ call.dispatched = 1
    /\ call.status = "success"
    /\ call.logged = {"trace", "profile"}

FieldAfter(g) == IF g.field = "pointer_mode" THEN pointer_mode' ELSE any_order'

\* Every guard in scope overrides the same field as the innermost one.
NestedOnOneField == \A i \in 1..Len(live) : live[i].field = Top.field

\* C26: when the overrides in scope are nested overrides of one field and the
\* innermost guard is released, the field gets the value that was in effect
\* immediately before the push of that guard; the release of the last guard
\* leaves the value the field had before the first push.
C26_NestedReleaseRestores ==
    [][ (Pops /\ Top.kind = "pushed" /\ NestedOnOneField)
        => /\ FieldAfter(Top) = live[Len(live)].before
           /\ live' = << >> => FieldAfter(Top) = live[1].before ]_vars

\* The inner of two nested pointer-mode overrides has been released and has
\* changed the field: the outer override, of a handle that was in host mode,
\* is in effect again.
C26_Witness ==
    /\ last.op = "~_pushed_state"
    /\ last.val = "pointer_mode"
    /\ last.arg = 1
    /\ Len(live) = 1
    /\ Top.field = "pointer_mode"
    /\ Top.before = "host"
    /\ pointer_mode = "device"

\* -------------------------------------------------------------------- C27
\* The sum over the naturals of the rounded-up sizes of the slots before slot i.
OffsetBefore(sizes, i) == SumCeil(SubSeq(sizes, 1, i - 1))

\* C27: on a successful device_malloc the pointer of every nonzero request i
\* is the base of the block plus the sum of the rounded-up sizes of the
\* requests before it, hence a multiple of the chunk away from the base, and
\* total_size() is the sum of all rounded-up sizes.
C27_PointersAtRoundedOffsets ==
    [][ (Pushes /\ New.kind = "malloc" /\ New.success)
        => /\ \A i \in NonzeroSlots(New) :
                 /\ New.pointers[i] = device_memory' + OffsetBefore(New.sizes, i)
                 /\ (New.pointers[i] - device_memory') % MIN_CHUNK_SIZE = 0
           /\ New.total = SumCeil(New.sizes) ]_vars

\* device_malloc(SIZE_MAX - 10, 50) has succeeded in a block of 64 bytes with a
\* total of 64, and both pointers are the base of the block.
C27_Witness ==
    /\ JustAllocated
    /\ Len(live) = 1
    /\ Top.sizes = << BigSize, 50 >>
    /\ Top.success
    /\ Top.total = MIN_CHUNK_SIZE
    /\ device_memory_size = MIN_CHUNK_SIZE
    /\ device_memory # NULL
    /\ Top.pointers = << device_memory, device_memory >>

\* -------------------------------------------------------------------- C28
\* C28: in a size query, a recording of a requirement, made by a routine or
\* directly, changes no field of the handle but the accumulated query size:
\* the block's pointer, its size, the ownership flag and the in-use guard stay
\* as they are, and nothing is allocated.
C28_RecordingTouchesQuerySizeOnly ==
    [][ RecordingStep
        => UNCHANGED << memory_fields, device_memory_size_query,
                        override_fields, logging_fields, gsu_fields, live,
                        aborted >> ]_vars

\* A requirement of 256 bytes has been recorded on a handle that holds an idle
\* block of 64 bytes.
C28_Witness ==
    /\ device_memory_size_query
    /\ last.op = "set_optimal_device_memory_size"
    /\ last.status = "size_increased"
    /\ device_memory_query_size = 256
    /\ device_memory # NULL
    /\ device_memory_size = 64
    /\ ~device_memory_in_use
    /\ live = << >>

\* -------------------------------------------------------------------- C29
\* The status the fixed order of checks gives a call with arguments a of a
\* routine that is (her) or is not (gbmv_batched) given an argument whose
\* value is checked; "dispatch" if no check fires.
FirstCheckThatFires(a, has_value_check) ==
    IF a.handle_null THEN "invalid_handle"
    ELSE IF device_memory_size_query THEN "size_unchanged"
    ELSE IF has_value_check /\ ~a.value_ok THEN "invalid_value"
    ELSE IF ~a.size_ok THEN "invalid_size"
    ELSE IF a.degenerate THEN "success"
    ELSE IF ~a.pointers_ok THEN "invalid_pointer"
    ELSE "dispatch"

\* C29: the status of a routine call is that of the first check that fires in
\* the order null handle, size query, invalid value, invalid size, zero size
\* (success), null pointer: so an invalid size is reported with null pointers
\* and with a zero size too, and a valid zero size gives success with null
\* pointers and without dispatch; when no check fires the call returns none
\* of the statuses of these checks but what the steps after them give.
C29_FirstCheckDecides ==
    [][ RoutineStep
        => LET c == call'
               first == FirstCheckThatFires(c.args, c.routine = "rocblas_her")
           IN  IF first = "dispatch"
               THEN c.status \notin PreconditionErrors \cup {"size_unchanged"}
               ELSE c.status = first /\ c.dispatched = 0 ]_vars

\* gbmv_batched called with a zero size, an invalid size and null pointers has
\* returned invalid_size.
C29_Witness ==
    /\ call.routine = "rocblas_gbmv_batched"
    /\ ~call.args.handle_null
    /\ ~call.args.size_ok
    /\ call.args.degenerate
    /\ ~call.args.pointers_ok
    /\ call.status = "invalid_size"
    /\ call.dispatched = 0

\* -------------------------------------------------------------------- C30
\* The statuses other than success that the backend template returns.
BackendErrors == BackendOutcomes \ {"success", "bad_alloc", "exception"}

\* C30: a status other than success returned by the backend template is the
\* status of the routine; the backend was called once, and gbmv_batched has
\* not validated the outputs after it.
C30_BackendStatusPropagated ==
    [][ (RoutineStep /\ call'.backend \in BackendErrors)
        => /\ call'.status = call'.backend
           /\ call'.dispatched = 1
           /\ call'.routine = "rocblas_gbmv_batched"
                 => call'.validated = IF check_numerics THEN 1 ELSE 0 ]_vars

\* gbmv_batched has validated its inputs, dispatched, and returned the error
\* of the backend.
C30_Witness ==
    /\ call.routine = "rocblas_gbmv_batched"
    /\ call.backend = "backend_error"
    /\ call.status = "backend_error"
    /\ call.validated = 1
    /\ call.dispatched = 1

\* -------------------------------------------------------------------- C31
\* The collaborator has been called in the current call of gbmv_batched.
Ran(step) == \E i \in 1..Len(position.steps) : position.steps[i] = step

\* The calls of collaborators a call of gbmv_batched makes, in their order.
StepsInOrder(flag) ==
    IF flag THEN << "check_inputs", "dispatch", "check_outputs" >>
    ELSE << "dispatch" >>

\* C31: gbmv_batched calls the numerics validation only if check_numerics
\* was set when the routine was entered, whatever the flag of the handle is
\* later. With the flag set it validates the inputs once the pointers have
\* been validated, before the dispatch; a status other than success of that
\* validation is returned and nothing is dispatched; the outputs are
\* validated after a dispatch that returned success, and only then. With the
\* flag clear the validation is never called.
C31_NumericsGatedByEntryFlag ==
    position.pc # "idle" =>
       LET order == StepsInOrder(position.check_numerics)
       IN  /\ Len(position.steps) <= Len(order)
           /\ position.steps = SubSeq(order, 1, Len(position.steps))
           /\ ~position.check_numerics
                 => ~Ran("check_inputs") /\ ~Ran("check_outputs")
           /\ Ran("check_inputs")
                 => /\ ~position.args.handle_null
                    /\ position.args.size_ok
                    /\ ~position.args.degenerate
                    /\ position.args.pointers_ok
           /\ (position.check_numerics /\ position.pc \in {"checked", "dispatched"})
                 => Ran("check_inputs")
           /\ (position.check_numerics /\ Ran("dispatch"))
                 => position.numerics_in = "success"
           /\ position.numerics_in \notin {"none", "success"}
                 => /\ position.pc = "returned"
                    /\ position.status = position.numerics_in
                    /\ ~Ran("dispatch")
           /\ Ran("check_outputs") => position.backend = "success"
           /\ (position.check_numerics /\ position.pc = "returned"
                 /\ position.backend = "success") => Ran("check_outputs")

\* A call entered with the flag set has validated the inputs, dispatched and
\* validated the outputs, although the flag of the handle was cleared
\* during the call.
C31_Witness ==
    /\ position.pc = "returned"
    /\ position.check_numerics
    /\ ~check_numerics
    /\ position.steps = << "check_inputs", "dispatch", "check_outputs" >>
    /\ position.status = "success"

\* -------------------------------------------------------------------- C32
\* Allocation object a got memory from the allocator.
HoldsBlock(a) == a.kind \in {"malloc", "gsu"} /\ a.success /\ a.total # 0

\* C32: as long as a successful allocation of a total other than zero is
\* live, the in-use guard of the handle is set: neither the construction nor
\* the destruction of another allocation object clears it.
C32_GuardHeldWhileLive ==
    (~aborted /\ \E i \in 1..Len(live) : HoldsBlock(live[i]))
       => device_memory_in_use

\* The destructor of an allocation object has cleared the guard while the
\* allocation it was move-constructed from, with the same sizes and the same
\* pointers, is live.
C32_Witness ==
    /\ last.op = "~_device_malloc"
    /\ live # << >>
    /\ HoldsBlock(Top)
    /\ last.arg = Top.sizes
    /\ last.val = Top.pointers
    /\ ~device_memory_in_use

\* -------------------------------------------------------------------- C33
\* gsu_workspace_size is nonzero exactly when gsu_workspace is not null.
GsuFieldsAgree == (gsu_workspace_size # 0) <=> (gsu_workspace # NULL)

\* C33: the GSU fields agree with each other; after a gsu_malloc() that
\* failed the workspace is null and its size 0; and a workspace that is not
\* null is the base of the block the handle has now.
C33_GsuFieldsConsistent ==
    ~aborted =>
       /\ GsuFieldsAgree
       /\ (last.op = "gsu_malloc" /\ last.status = "failed") => GsuFieldsEmpty
       /\ gsu_workspace # NULL => gsu_workspace = device_memory

\* A GSU scratch object is live and the workspace it published is not the
\* base of the block the handle has now.
C33_Witness ==
    /\ ~aborted
    /\ \E i \in 1..Len(live) : live[i].kind = "gsu" /\ live[i].success
    /\ gsu_workspace # NULL
    /\ gsu_workspace # device_memory
    /\ gsu_workspace_size # 0

====
